---- MODULE Spec2Model ----
(***************************************************************************)
(* Model of motor_control_ver1.3.2.py: the MotorController class, the      *)
(* KeyReader context manager and the main loop.                            *)
(*                                                                         *)
(* Numbers.  power and the arguments of set_speed are integers.  The       *)
(* balance factors and every value derived from them (actual speeds, duty  *)
(* cycles) are Python floats; they are represented exactly, in hundredths: *)
(* the factor 1.2 is 120, the duty 96.0 is 9600.  Rounding of binary       *)
(* floating point is not represented.                                      *)
(*                                                                         *)
(* The pigpio driver is outside the repository: the model records the      *)
(* arguments of every set_PWM_dutycycle call (calls) and the value last    *)
(* passed for each pin (duty), not the driver's reaction to them.          *)
(***************************************************************************)
EXTENDS Integers, Sequences, FiniteSets, TLC

VARIABLES
    pins,       \* MotorController.pins: the dict handed to the constructor
    power,      \* MotorController.power
    balance,    \* MotorController.balance, <<left, right>> in hundredths
    duty,       \* pin number -> value last passed to set_PWM_dutycycle (hundredths)
    calls,      \* the set_PWM_dutycycle calls made by the last step, in order
    speedArgs,  \* <<left_speed, right_speed>> handed to set_speed by the last step
    op,         \* the controller method invoked by the last step
    arg,        \* <<delta>> handed to that method, <<>> when it takes none
    out,        \* the line printed by the last step, <<>> when it prints none
    exc,        \* the exception raised by the last step, "none" when it returns
    pc,         \* position of main
    key,        \* main's local variable key
    loopExit,   \* how the while loop was left
    rawMode,    \* the terminal is in cbreak mode
    piStopped,  \* pi.stop() has been called
    rawCh,      \* KeyReader.get's local ch: the character last read from stdin
    typed       \* history of the keys read: <<key, n>> while they are n presses
                \* of one key, <<"", 0>> before any, <<"mixed", 0>> otherwise

ctl  == <<pins, power, balance, duty, calls, speedArgs, op, arg, out, exc>>
prog == <<pc, key, loopExit, rawMode, piStopped, rawCh, typed>>
vars == <<pins, power, balance, duty, calls, speedArgs, op, arg, out, exc,
          pc, key, loopExit, rawMode, piStopped, rawCh, typed>>

----------------------------------------------------------------------------
(* Bounds of the model *)

\* adjust_power is called with the deltas 20 * k, |k| <= MaxPowerSteps
MaxPowerSteps == 6
\* adjust_balance is called with the deltas 0.10 * k, |k| <= MaxBalanceSteps
MaxBalanceSteps == 6
\* typed counts up to MaxRun presses of one key
MaxRun == 16

PowerDeltas   == {20 * k : k \in -MaxPowerSteps..MaxPowerSteps}
BalanceDeltas == {10 * k : k \in -MaxBalanceSteps..MaxBalanceSteps}

----------------------------------------------------------------------------
(* Program constants *)

PowerMin    == 0
PowerMax    == 100
InitPower   == 80
BalanceMin  == 50
BalanceMax  == 150
PwmRange    == 100
NoDuty      == -1

InitBalance == <<100, 100>>

\* the dict main builds, and a dict with the keys set_speed reads
MainPins == ("L_A1" :> 12) @@ ("L_A2" :> 13) @@ ("R_B1" :> 18) @@ ("R_B2" :> 19)
DirPins  == ("L_f" :> 12) @@ ("L_b" :> 13) @@ ("R_f" :> 18) @@ ("R_b" :> 19)

PinNumbers == {12, 13, 18, 19}

Max(a, b) == IF a >= b THEN a ELSE b
Min(a, b) == IF a <= b THEN a ELSE b

----------------------------------------------------------------------------
(* MotorController *)

ControllerInit(p) ==
    /\ pins = p
    /\ power = InitPower
    /\ balance = InitBalance
    /\ duty = [n \in PinNumbers |-> NoDuty]
    /\ calls = <<>>
    /\ speedArgs = <<>>
    /\ op = "__init__"
    /\ arg = <<>>
    /\ out = <<>>
    /\ exc = "none"

duty_forward(speed)  == Max(0, speed)

\* mutant: the backward duty taken from the speed without negating it
duty_backward_unnegated(speed) == Max(0, speed)

duty_backward(speed) == Max(0, -speed)

apply_pwm(forward_pin, backward_pin, speed) ==
    << <<forward_pin, duty_forward(speed)>>,
       <<backward_pin, duty_backward(speed)>> >>

\* mutant: the left speed passed on without the balance factor
left_actual_unscaled(left_speed) == left_speed * 100

left_actual(left_speed)   == left_speed * balance[1]
right_actual(right_speed) == right_speed * balance[2]

HasKeys(ks) == ks \subseteq DOMAIN pins

\* the writes set_speed makes before it returns or raises KeyError
SetSpeedCalls(left_speed, right_speed) ==
    IF ~HasKeys({"L_f", "L_b"}) THEN <<>>
    ELSE apply_pwm(pins["L_f"], pins["L_b"], left_actual(left_speed))
         \o (IF ~HasKeys({"R_f", "R_b"}) THEN <<>>
             ELSE apply_pwm(pins["R_f"], pins["R_b"], right_actual(right_speed)))

SetSpeedExc ==
    IF HasKeys({"L_f", "L_b", "R_f", "R_b"}) THEN "none" ELSE "KeyError"

RECURSIVE Written(_, _)
Written(d, cs) ==
    IF cs = <<>> THEN d
    ELSE Written([d EXCEPT ![Head(cs)[1]] = Head(cs)[2]], Tail(cs))

set_speed(left_speed, right_speed) ==
    /\ speedArgs' = <<left_speed, right_speed>>
    /\ calls' = SetSpeedCalls(left_speed, right_speed)
    /\ duty' = Written(duty, calls')
    /\ exc' = SetSpeedExc
    /\ out' = <<>>
    /\ arg' = <<>>
    /\ UNCHANGED <<pins, power, balance>>

\* mutant: stop also resets the power
stop_resets_power ==
    /\ op' = "stop"
    /\ speedArgs' = <<0, 0>>
    /\ calls' = SetSpeedCalls(0, 0)
    /\ duty' = Written(duty, calls')
    /\ exc' = SetSpeedExc
    /\ out' = <<>>
    /\ arg' = <<>>
    /\ power' = 0
    /\ UNCHANGED <<pins, balance>>

stop        == op' = "stop"        /\ set_speed(0, 0)
forward     == op' = "forward"     /\ set_speed(power, power)
backward    == op' = "backward"    /\ set_speed(-power, -power)

\* mutant: turn_left with the signs of turn_right
turn_left_swapped == op' = "turn_left" /\ set_speed(power, -power)

turn_left   == op' = "turn_left"   /\ set_speed(-power, power)
turn_right  == op' = "turn_right"  /\ set_speed(power, -power)
pivot_left  == op' = "pivot_left"  /\ set_speed(power, 0)
pivot_right == op' = "pivot_right" /\ set_speed(0, power)

\* mutant: the upper limit alone
ClampPowerUpperOnly(x) == Min(PowerMax, x)

\* mutant: the lower limit alone
ClampPowerLowerOnly(x) == Max(PowerMin, x)

ClampPower(x)   == Max(PowerMin, Min(PowerMax, x))

\* mutant: the lower limit alone
ClampBalanceLowerOnly(x) == Max(BalanceMin, x)

ClampBalance(x) == Max(BalanceMin, Min(BalanceMax, x))

\* f"{v:.2f}" of a value held in hundredths: integer part and two digits
Fmt2(v) == <<v \div 100, v % 100>>

\* mutant: adjust_power also stops the motors
adjust_power_and_stop(delta) ==
    /\ op' = "adjust_power"
    /\ arg' = <<delta>>
    /\ power' = ClampPower(power + delta)
    /\ out' = <<"Power", power'>>
    /\ calls' = SetSpeedCalls(0, 0)
    /\ duty' = Written(duty, calls')
    /\ speedArgs' = <<>>
    /\ exc' = "none"
    /\ UNCHANGED <<pins, balance>>

adjust_power(delta) ==
    /\ op' = "adjust_power"
    /\ arg' = <<delta>>
    /\ power' = ClampPower(power + delta)
    /\ out' = <<"Power", power'>>
    /\ calls' = <<>>
    /\ speedArgs' = <<>>
    /\ exc' = "none"
    /\ UNCHANGED <<pins, balance, duty>>

\* mutant: the right factor derived from the left factor just computed
NewRightFromNewLeft(new_left, delta) == new_left - delta

\* new_right of adjust_balance (new_left is in scope where it is computed)
NewRight(new_left, delta) == balance[2] - delta

adjust_balance(delta) ==
    /\ op' = "adjust_balance"
    /\ arg' = <<delta>>
    /\ LET new_left  == balance[1] + delta
           new_right == NewRight(new_left, delta)
       IN  balance' = <<ClampBalance(new_left), ClampBalance(new_right)>>
    /\ out' = <<"Balance", Fmt2(balance'[1]), Fmt2(balance'[2])>>
    /\ calls' = <<>>
    /\ speedArgs' = <<>>
    /\ exc' = "none"
    /\ UNCHANGED <<pins, power, duty>>

----------------------------------------------------------------------------
(* A caller of MotorController: any method, any time *)

CtlInit ==
    /\ \E p \in {MainPins, DirPins} : ControllerInit(p)
    /\ pc = "caller"
    /\ key = ""
    /\ loopExit = "running"
    /\ rawMode = FALSE
    /\ piStopped = FALSE
    /\ rawCh = ""
    /\ typed = <<"", 0>>

CallStop          == stop /\ UNCHANGED prog
CallForward       == forward /\ UNCHANGED prog
CallBackward      == backward /\ UNCHANGED prog
CallTurnLeft      == turn_left /\ UNCHANGED prog
CallTurnRight     == turn_right /\ UNCHANGED prog
CallPivotLeft     == pivot_left /\ UNCHANGED prog
CallPivotRight    == pivot_right /\ UNCHANGED prog
CallAdjustPower   == \E delta \in PowerDeltas : adjust_power(delta) /\ UNCHANGED prog
CallAdjustBalance == \E delta \in BalanceDeltas : adjust_balance(delta) /\ UNCHANGED prog

CtlNext ==
    \/ CallStop
    \/ CallForward
    \/ CallBackward
    \/ CallTurnLeft
    \/ CallTurnRight
    \/ CallPivotLeft
    \/ CallPivotRight
    \/ CallAdjustPower
    \/ CallAdjustBalance

SpecCtl == CtlInit /\ [][CtlNext]_vars

----------------------------------------------------------------------------
(* The same caller, one set_PWM_dutycycle call per step: a motion command  *)
(* is entered (set_speed has its arguments), then its writes happen one at *)
(* a time in the order of _apply_pwm; no other method runs in between.     *)

\* the pair each motion command hands to set_speed
CommandSpeeds(name) ==
    CASE name = "stop"        -> <<0, 0>>
      [] name = "forward"     -> <<power, power>>
      [] name = "backward"    -> <<-power, -power>>
      [] name = "turn_left"   -> <<-power, power>>
      [] name = "turn_right"  -> <<power, -power>>
      [] name = "pivot_left"  -> <<power, 0>>
      [] name = "pivot_right" -> <<0, power>>

CommandNames == {"stop", "forward", "backward", "turn_left", "turn_right",
                 "pivot_left", "pivot_right"}

\* the writes of the command entered, done or still to do
CommandCalls ==
    IF op \in CommandNames THEN SetSpeedCalls(speedArgs[1], speedArgs[2]) ELSE <<>>

MidCommand == Len(calls) < Len(CommandCalls)

\* a motion command is called: set_speed is entered, or raises KeyError on
\* its first self.pins[...] lookup
PinCommand ==
    /\ ~MidCommand
    /\ \E name \in CommandNames :
        /\ op' = name
        /\ speedArgs' = CommandSpeeds(name)
    /\ calls' = <<>>
    /\ exc' = SetSpeedExc
    /\ out' = <<>>
    /\ arg' = <<>>
    /\ UNCHANGED <<pins, power, balance, duty>>
    /\ UNCHANGED prog

\* the next set_PWM_dutycycle call of the command
PinWrite ==
    /\ MidCommand
    /\ LET w == CommandCalls[Len(calls) + 1]
       IN  /\ calls' = Append(calls, w)
           /\ duty' = [duty EXCEPT ![w[1]] = w[2]]
    /\ UNCHANGED <<pins, power, balance, speedArgs, op, arg, out, exc>>
    /\ UNCHANGED prog

PinAdjustPower   == ~MidCommand /\ CallAdjustPower
PinAdjustBalance == ~MidCommand /\ CallAdjustBalance

PinNext ==
    \/ PinCommand
    \/ PinWrite
    \/ PinAdjustPower
    \/ PinAdjustBalance

SpecPins == CtlInit /\ [][PinNext]_vars

----------------------------------------------------------------------------
(* KeyReader *)

\* str.lower() on the characters the keyboard delivers
UpperToLower ==
    [A |-> "a", B |-> "b", C |-> "c", D |-> "d", E |-> "e", F |-> "f",
     G |-> "g", H |-> "h", I |-> "i", J |-> "j", K |-> "k", L |-> "l",
     M |-> "m", N |-> "n", O |-> "o", P |-> "p", Q |-> "q", R |-> "r",
     S |-> "s", T |-> "t", U |-> "u", V |-> "v", W |-> "w", X |-> "x",
     Y |-> "y", Z |-> "z"]

Lower(ch) == IF ch \in DOMAIN UpperToLower THEN UpperToLower[ch] ELSE ch

\* what sys.stdin.read(1) returns: a character, or "" at end of input
Chars == {"w", "s", "a", "d", "q", "e", "k", "l", ",", ".", " ", "x",
          "W", "S", "A", "D", "Q", "E", "K", "L", "X",
          "z", "Z", "1", "<", ""}

\* mutant: the character is returned as read
get_as_read(ch) == ch

\* KeyReader.get
get(ch) == Lower(ch)

\* KeyReader.__enter__: the terminal is put in cbreak mode
KeyReaderEnter == TRUE

\* mutant: the attributes are written back only when no exception is pending
KeyReaderExitOnSuccessOnly(exc_type) == exc_type # "none"

\* KeyReader.__exit__(exc_type, ...): the saved attributes are written back,
\* whatever exc_type is; the result is whether the terminal is still raw
KeyReaderExit(exc_type) == FALSE

----------------------------------------------------------------------------
(* main *)

\* mutant: q and e bound to each other's method
actions_pivots_swapped ==
    ("w" :> <<"forward">>) @@ ("s" :> <<"backward">>) @@
    ("a" :> <<"turn_left">>) @@ ("d" :> <<"turn_right">>) @@
    ("q" :> <<"pivot_right">>) @@ ("e" :> <<"pivot_left">>) @@
    ("k" :> <<"adjust_power", 5>>) @@ ("l" :> <<"adjust_power", -5>>) @@
    ("," :> <<"adjust_balance", 5>>) @@ ("." :> <<"adjust_balance", -5>>) @@
    (" " :> <<"stop">>)

\* mutant: the balance keys step by 0.10
actions_balance_step_10 ==
    ("w" :> <<"forward">>) @@ ("s" :> <<"backward">>) @@
    ("a" :> <<"turn_left">>) @@ ("d" :> <<"turn_right">>) @@
    ("q" :> <<"pivot_left">>) @@ ("e" :> <<"pivot_right">>) @@
    ("k" :> <<"adjust_power", 5>>) @@ ("l" :> <<"adjust_power", -5>>) @@
    ("," :> <<"adjust_balance", 10>>) @@ ("." :> <<"adjust_balance", -10>>) @@
    (" " :> <<"stop">>)

\* the dict actions: key -> <<method>> or <<method, delta>>
actions ==
    ("w" :> <<"forward">>) @@ ("s" :> <<"backward">>) @@
    ("a" :> <<"turn_left">>) @@ ("d" :> <<"turn_right">>) @@
    ("q" :> <<"pivot_left">>) @@ ("e" :> <<"pivot_right">>) @@
    ("k" :> <<"adjust_power", 5>>) @@ ("l" :> <<"adjust_power", -5>>) @@
    ("," :> <<"adjust_balance", 5>>) @@ ("." :> <<"adjust_balance", -5>>) @@
    (" " :> <<"stop">>)

ExitKey == "x"

Invoke(action) ==
    CASE action[1] = "forward"        -> forward
      [] action[1] = "backward"       -> backward
      [] action[1] = "turn_left"      -> turn_left
      [] action[1] = "turn_right"     -> turn_right
      [] action[1] = "pivot_left"     -> pivot_left
      [] action[1] = "pivot_right"    -> pivot_right
      [] action[1] = "stop"           -> stop
      [] action[1] = "adjust_power"   -> adjust_power(action[2])
      [] action[1] = "adjust_balance" -> adjust_balance(action[2])

\* a step of main that calls no controller method
NoCall ==
    /\ op' = "none"
    /\ arg' = <<>>
    /\ calls' = <<>>
    /\ speedArgs' = <<>>
    /\ UNCHANGED <<pins, power, balance, duty>>

Init ==
    /\ ControllerInit(MainPins)
    /\ pc = "start"
    /\ key = ""
    /\ loopExit = "running"
    /\ rawMode = FALSE
    /\ piStopped = FALSE
    /\ rawCh = ""
    /\ typed = <<"", 0>>

\* the banner is printed and the with statement enters KeyReader
Start ==
    /\ pc = "start"
    /\ NoCall
    /\ out' = <<"--- Control Started: Press X to exit ---">>
    /\ rawMode' = KeyReaderEnter
    /\ pc' = "loop"
    /\ UNCHANGED <<exc, key, loopExit, piStopped, rawCh, typed>>

\* the history of the keys read, after key k
NextTyped(k) ==
    IF typed[1] \in {"", k} /\ typed[2] < MaxRun
    THEN <<k, typed[2] + 1>>
    ELSE <<"mixed", 0>>

\* one iteration on the character c: nothing was read, sleep and retry
KeyNoneOn(c) ==
    /\ pc = "loop"
    /\ key' = get(c)
    /\ key' = ""
    /\ NoCall
    /\ out' = <<>>
    /\ UNCHANGED <<exc, pc, loopExit, rawMode, piStopped, typed>>

\* one iteration on the character c: the exit key breaks the loop
KeyExitOn(c) ==
    /\ pc = "loop"
    /\ key' = get(c)
    /\ key' # ""
    /\ key' = ExitKey
    /\ NoCall
    /\ out' = <<>>
    /\ loopExit' = "exit_symbol"
    /\ pc' = "with_exit"
    /\ typed' = NextTyped(key')
    /\ UNCHANGED <<exc, rawMode, piStopped>>

\* one iteration on the character c: the key is bound, its action runs and
\* returns or raises
KeyActionOn(c) ==
    /\ pc = "loop"
    /\ key' = get(c)
    /\ key' # ""
    /\ key' # ExitKey
    /\ key' \in DOMAIN actions
    /\ Invoke(actions[key'])
    /\ loopExit' = IF exc' = "none" THEN "running" ELSE "error"
    /\ pc' = IF exc' = "none" THEN "loop" ELSE "with_exit"
    /\ typed' = NextTyped(key')
    /\ UNCHANGED <<rawMode, piStopped>>

\* mutant: the key is looked up with actions[key], which raises on a key
\* that is not bound
KeyUnboundRaisesOn(c) ==
    /\ pc = "loop"
    /\ key' = get(c)
    /\ key' # ""
    /\ key' # ExitKey
    /\ key' \notin DOMAIN actions
    /\ NoCall
    /\ out' = <<>>
    /\ exc' = "KeyError"
    /\ loopExit' = "error"
    /\ pc' = "with_exit"
    /\ typed' = NextTyped(key')
    /\ UNCHANGED <<rawMode, piStopped>>

\* one iteration on the character c: actions.get(key) is None
KeyUnboundOn(c) ==
    /\ pc = "loop"
    /\ key' = get(c)
    /\ key' # ""
    /\ key' # ExitKey
    /\ key' \notin DOMAIN actions
    /\ NoCall
    /\ out' = <<>>
    /\ typed' = NextTyped(key')
    /\ UNCHANGED <<exc, pc, loopExit, rawMode, piStopped>>

KeyNone    == \E c \in Chars : rawCh' = c /\ KeyNoneOn(c)
KeyExit    == \E c \in Chars : rawCh' = c /\ KeyExitOn(c)
KeyAction  == \E c \in Chars : rawCh' = c /\ KeyActionOn(c)
KeyUnbound == \E c \in Chars : rawCh' = c /\ KeyUnboundOn(c)

\* sys.stdin.read is interrupted (Ctrl-C raises KeyboardInterrupt): key is not assigned
ReadInterrupted ==
    /\ pc = "loop"
    /\ NoCall
    /\ out' = <<>>
    /\ exc' = "KeyboardInterrupt"
    /\ loopExit' = "error"
    /\ pc' = "with_exit"
    /\ UNCHANGED <<key, rawMode, piStopped, rawCh, typed>>

\* the with statement is left: __exit__ runs, a pending exception goes on
\* propagating out of main
WithExit ==
    /\ pc = "with_exit"
    /\ NoCall
    /\ out' = <<>>
    /\ rawMode' = KeyReaderExit(exc)
    /\ pc' = IF exc = "none" THEN "final_stop" ELSE "raised"
    /\ UNCHANGED <<exc, key, loopExit, piStopped, rawCh, typed>>

\* controller.stop() after the loop
FinalStop ==
    /\ pc = "final_stop"
    /\ stop
    /\ pc' = IF exc' = "none" THEN "pi_stop" ELSE "raised"
    /\ UNCHANGED <<key, loopExit, rawMode, piStopped, rawCh, typed>>

\* pi.stop()
PiStop ==
    /\ pc = "pi_stop"
    /\ NoCall
    /\ out' = <<>>
    /\ piStopped' = TRUE
    /\ pc' = "print_exited"
    /\ UNCHANGED <<exc, key, loopExit, rawMode, rawCh, typed>>

\* print("Exited.")
PrintExited ==
    /\ pc = "print_exited"
    /\ NoCall
    /\ out' = <<"Exited.">>
    /\ pc' = "done"
    /\ UNCHANGED <<exc, key, loopExit, rawMode, piStopped, rawCh, typed>>

\* With the dict of line 187 controller.stop() raises KeyError in every run, so
\* PiStop and PrintExited are never reached by main as written; MainNext adds
\* them for a run of main on a dict that has the keys set_speed reads.
Next ==
    \/ Start
    \/ KeyNone
    \/ KeyExit
    \/ KeyAction
    \/ KeyUnbound
    \/ ReadInterrupted
    \/ WithExit
    \/ FinalStop

Spec == Init /\ [][Next]_vars

InitDirPins ==
    /\ ControllerInit(DirPins)
    /\ pc = "start"
    /\ key = ""
    /\ loopExit = "running"
    /\ rawMode = FALSE
    /\ piStopped = FALSE
    /\ rawCh = ""
    /\ typed = <<"", 0>>

MainNext ==
    \/ Next
    \/ PiStop
    \/ PrintExited

SpecDirPins == InitDirPins /\ [][MainNext]_vars

----------------------------------------------------------------------------
(* Claims *)

MotionOps == {"forward", "backward", "turn_left", "turn_right",
              "pivot_left", "pivot_right", "stop"}

Clamp(x, lo, hi) == IF x < lo THEN lo ELSE IF x > hi THEN hi ELSE x
Pos(x) == IF x > 0 THEN x ELSE 0

AllZero == \A n \in PinNumbers : duty[n] = 0

\* C1: adjust_power(delta) sets power to clamp(power + delta, 0, 100), and
\* power is in [0, 100] before and after every step.
C1_AdjustPowerClamps ==
    [][ /\ power \in 0..100
        /\ power' \in 0..100
        /\ (op' = "adjust_power" =>
              power' = Clamp(power + arg'[1], 0, 100)) ]_vars

\* adjust_power(-120) has run and left the power at the lower limit
C1_Witness == op = "adjust_power" /\ arg = <<-120>> /\ power = 0

\* C2: adjust_balance(delta) sets the left factor to clamp(L + delta, 0.5, 1.5)
\* and the right factor to clamp(R - delta, 0.5, 1.5), L and R being the factors
\* held before the call; both factors are in [0.5, 1.5] before and after every step.
C2_AdjustBalanceClamps ==
    [][ /\ \A i \in 1..2 : balance[i] \in 50..150 /\ balance'[i] \in 50..150
        /\ (op' = "adjust_balance" =>
              /\ balance'[1] = Clamp(balance[1] + arg'[1], 50, 150)
              /\ balance'[2] = Clamp(balance[2] - arg'[1], 50, 150)) ]_vars

\* adjust_balance(+0.3) has run and moved both factors without clamping either
C2_Witness == op = "adjust_balance" /\ arg = <<30>> /\ balance = <<130, 70>>

\* C3: every value passed to set_PWM_dutycycle is in [0, pwm_range].
C3_DutyWithinRange ==
    \A i \in 1..Len(calls) : calls[i][2] >= 0 /\ calls[i][2] <= PwmRange * 100

\* C4: on the controller main constructs, every motion command returns without
\* raising and makes exactly four set_PWM_dutycycle calls, one to each of the
\* four pins configured at startup.
C4_MotionCommandWritesFourPins ==
    (pins = MainPins /\ op \in MotionOps) =>
        /\ exc = "none"
        /\ Len(calls) = 4
        /\ {calls[i][1] : i \in 1..Len(calls)} = {pins[k] : k \in DOMAIN pins}

\* C5: after the exit key no further key is dispatched, the stop command sets
\* all four duty cycles to zero, only then pi.stop() is called, only then
\* "Exited." is printed, and the run ends that way.
C5_ExitKeyShutdown ==
    /\ (loopExit = "exit_symbol" => pc # "loop")
    /\ (piStopped => AllZero)
    /\ (out = <<"Exited.">> => piStopped)
    /\ (loopExit = "exit_symbol" /\ pc \in {"done", "raised"} =>
          pc = "done" /\ AllZero /\ piStopped /\ out = <<"Exited.">>)

\* C6: when the loop ends by an exception, the stop command has set all four
\* duty cycles to zero by the time the program ends.
C6_StopAfterError ==
    (loopExit = "error" /\ pc \in {"done", "raised"}) => AllZero

\* C7: the terminal is in cbreak mode while the loop runs and is back in its
\* original mode once the with statement is left, by the exit key or by an
\* exception.
C7_TerminalRestored ==
    /\ (pc = "start" => ~rawMode)
    /\ (pc \in {"loop", "with_exit"} => rawMode)
    /\ (pc \in {"final_stop", "pi_stop", "print_exited", "done", "raised"} => ~rawMode)

\* the loop was left by an exception and the program has ended
C7_Witness == pc = "raised" /\ loopExit = "error" /\ ~rawMode

\* C8: the pair handed to set_speed is (p,p) for forward, (-p,-p) for backward,
\* (-p,p) for turn_left, (p,-p) for turn_right, (p,0) for pivot_left, (0,p) for
\* pivot_right and (0,0) for stop, p being the power.
C8_SpeedPairs ==
    /\ (op = "forward"     => speedArgs = <<power, power>>)
    /\ (op = "backward"    => speedArgs = <<-power, -power>>)
    /\ (op = "turn_left"   => speedArgs = <<-power, power>>)
    /\ (op = "turn_right"  => speedArgs = <<power, -power>>)
    /\ (op = "pivot_left"  => speedArgs = <<power, 0>>)
    /\ (op = "pivot_right" => speedArgs = <<0, power>>)
    /\ (op = "stop"        => speedArgs = <<0, 0>>)

\* turn_left has run at a power other than 0
C8_Witness == op = "turn_left" /\ power = 60 /\ speedArgs = <<-60, 60>>

\* C9: for the signed speed s of a motor, the forward pin is written max(0, s)
\* and the backward pin max(0, -s): one of the two is nonzero when s # 0, none
\* when s = 0, neither exceeds |s|; no motor has both pins at a nonzero duty,
\* and after stop all four pins are at 0.
C9_DutySplit ==
    /\ (op \in MotionOps /\ exc = "none") =>
          /\ Len(calls) = 4
          /\ \A m \in 1..2 :
               LET s == speedArgs[m] * balance[m]
                   f == calls[2 * m - 1]
                   b == calls[2 * m]
               IN  /\ f = <<pins[<<"L_f", "R_f">>[m]], Pos(s)>>
                   /\ b = <<pins[<<"L_b", "R_b">>[m]], Pos(-s)>>
                   /\ (s # 0 => (f[2] # 0) # (b[2] # 0))
                   /\ (s = 0 => f[2] = 0 /\ b[2] = 0)
                   /\ f[2] <= Pos(s) + Pos(-s)
                   /\ b[2] <= Pos(s) + Pos(-s)
                   /\ duty[f[1]] = f[2]
                   /\ duty[b[1]] = b[2]
          /\ (op = "stop" => AllZero)
    /\ ~(duty[12] > 0 /\ duty[13] > 0)
    /\ ~(duty[18] > 0 /\ duty[19] > 0)

\* backward has run: both backward pins carry a duty, both forward pins are at 0
C9_Witness ==
    /\ op = "backward" /\ exc = "none"
    /\ duty[13] > 0 /\ duty[19] > 0 /\ duty[12] = 0 /\ duty[18] = 0

\* C10: the duty written for the left motor derives from left_speed * left
\* factor and for the right motor from right_speed * right factor; at power 80
\* and balance (1.2, 0.8) forward writes 96 and 64 to the forward pins and 0 to
\* both backward pins.
C10_BalanceScaling ==
    (op \in MotionOps /\ exc = "none") =>
        /\ calls[1][2] - calls[2][2] = speedArgs[1] * balance[1]
        /\ calls[3][2] - calls[4][2] = speedArgs[2] * balance[2]
        /\ (op = "forward" /\ power = 80 /\ balance = <<120, 80>> =>
              duty = (12 :> 9600) @@ (13 :> 0) @@ (18 :> 6400) @@ (19 :> 0))

\* forward has run at power 80 and balance (1.2, 0.8)
C10_Witness ==
    /\ op = "forward" /\ exc = "none" /\ power = 80 /\ balance = <<120, 80>>
    /\ calls[1] = <<12, 9600>> /\ calls[3] = <<18, 6400>>

\* one iteration of the loop on the character c, whatever case it falls in
LoopBodyOn(c) == KeyNoneOn(c) \/ KeyExitOn(c) \/ KeyActionOn(c) \/ KeyUnboundOn(c)

\* the step reads a character (key is assigned)
ReadsKey == pc = "loop" /\ exc' # "KeyboardInterrupt"

\* C11: each bound key invokes exactly its method: w forward, s backward,
\* a turn_left, d turn_right, q pivot_left, e pivot_right, k adjust_power(+5),
\* l adjust_power(-5), ',' adjust_balance(+0.05), '.' adjust_balance(-0.05),
\* space stop; x breaks the loop and invokes no method.
C11_DispatchTable ==
    [][ ReadsKey =>
          /\ (key' = "w" => op' = "forward"        /\ arg' = <<>>)
          /\ (key' = "s" => op' = "backward"       /\ arg' = <<>>)
          /\ (key' = "a" => op' = "turn_left"      /\ arg' = <<>>)
          /\ (key' = "d" => op' = "turn_right"     /\ arg' = <<>>)
          /\ (key' = "q" => op' = "pivot_left"     /\ arg' = <<>>)
          /\ (key' = "e" => op' = "pivot_right"    /\ arg' = <<>>)
          /\ (key' = "k" => op' = "adjust_power"   /\ arg' = <<5>>)
          /\ (key' = "l" => op' = "adjust_power"   /\ arg' = <<-5>>)
          /\ (key' = "," => op' = "adjust_balance" /\ arg' = <<5>>)
          /\ (key' = "." => op' = "adjust_balance" /\ arg' = <<-5>>)
          /\ (key' = " " => op' = "stop"           /\ arg' = <<>>)
          /\ (key' = "x" => op' = "none" /\ loopExit' = "exit_symbol"
                            /\ pc' = "with_exit") ]_vars

\* the key e has been read and pivot_right invoked
C11_Witness == rawCh = "e" /\ key = "e" /\ op = "pivot_right" /\ speedArgs = <<0, 80>>

BoundKeys == {"w", "s", "a", "d", "q", "e", "k", "l", ",", ".", " "}

\* C12: a key that is neither bound nor the exit key leaves power and balance
\* unchanged, makes no set_PWM_dutycycle call, raises nothing, and the loop
\* goes on.
C12_UnboundKeyNoOp ==
    [][ (ReadsKey /\ key' \notin BoundKeys \cup {"x", ""}) =>
          /\ power' = power
          /\ balance' = balance
          /\ calls' = <<>>
          /\ duty' = duty
          /\ op' = "none"
          /\ exc' = "none"
          /\ pc' = "loop" ]_vars

\* the unbound key z has been read, after the state had been changed, and the
\* loop goes on
C12_Witness ==
    /\ rawCh = "z" /\ key = "z" /\ pc = "loop" /\ op = "none"
    /\ power = 90 /\ balance = <<95, 105>>

\* C13: for every letter, a step is an iteration of the loop on the upper-case
\* character exactly when it is an iteration on the lower-case character: both
\* lead to the same power, balance, calls, exception and position of main.
C13_CaseInsensitive ==
    [][ pc = "loop" =>
          \A u \in DOMAIN UpperToLower :
              LoopBodyOn(u) <=> LoopBodyOn(UpperToLower[u]) ]_vars

\* upper-case K has been read and dispatched as k
C13_Witness ==
    /\ rawCh = "K" /\ key = "k" /\ op = "adjust_power" /\ arg = <<5>>
    /\ power = 85

\* C14: after n presses of k from the start (power 80) the power is
\* min(100, 80 + 5n) and the line just printed shows it: 95 after three
\* presses, 100 (not 105) after four.
C14_PowerScenario ==
    typed[1] = "k" =>
        /\ power = (IF 80 + 5 * typed[2] > 100 THEN 100 ELSE 80 + 5 * typed[2])
        /\ (typed[2] = 3 => power = 95)
        /\ (typed[2] = 4 => power = 100)
        /\ (op = "adjust_power" => out = <<"Power", power>>)

\* k has been pressed four times and the fourth press printed Power: 100
C14_Witness ==
    typed = <<"k", 4>> /\ op = "adjust_power" /\ power = 100 /\ out = <<"Power", 100>>

\* C15: after n presses of ',' from the start the balance is
\* (1.0 + 0.05n, 1.0 - 0.05n) for n < 10 and (1.5, 0.5) for 10 <= n <= 15.
C15_BalanceScenario ==
    (typed[1] = "," /\ typed[2] <= 15) =>
        /\ (typed[2] < 10 =>
              /\ balance = <<100 + 5 * typed[2], 100 - 5 * typed[2]>>
              /\ balance[1] < 150 /\ balance[2] > 50)
        /\ (typed[2] >= 10 => balance = <<150, 50>>)

\* ',' has been pressed fifteen times
C15_Witness == typed = <<",", 15>> /\ op = "adjust_balance" /\ balance = <<150, 50>>

\* C16: adjust_power and adjust_balance make no set_PWM_dutycycle call and
\* leave the duty of every pin as it was.
C16_AdjustNoPwm ==
    [][ op' \in {"adjust_power", "adjust_balance"} =>
          calls' = <<>> /\ duty' = duty ]_vars

\* adjust_power has run after a forward command: the pins keep forward's duty
C16_Witness ==
    /\ op = "adjust_power" /\ power = 100
    /\ duty = (12 :> 8000) @@ (13 :> 0) @@ (18 :> 8000) @@ (19 :> 0)

\* C17: motion commands and stop leave power and balance unchanged,
\* adjust_power leaves balance unchanged, adjust_balance leaves power unchanged.
C17_StateFrame ==
    [][ /\ (op' \in MotionOps => power' = power /\ balance' = balance)
        /\ (op' = "adjust_power" => balance' = balance)
        /\ (op' = "adjust_balance" => power' = power) ]_vars

\* stop has run and completed at a power and balance other than the initial ones
C17_Witness ==
    op = "stop" /\ exc = "none" /\ power = 60 /\ balance = <<130, 70>>

\* C18: through the keyboard the two balance factors always add up to 2.0.
C18_BalanceSum == balance[1] + balance[2] = 200

\* ',' has driven both factors to their limits
C18_Witness == key = "," /\ op = "adjust_balance" /\ balance = <<150, 50>>

\* C19: after every single set_PWM_dutycycle call no motor has its forward pin
\* and its backward pin both at a nonzero duty.
C19_NoBothPinsPerWrite ==
    /\ ~(duty[12] > 0 /\ duty[13] > 0)
    /\ ~(duty[18] > 0 /\ duty[19] > 0)

====
